---- MODULE Spec2Model ----
(***************************************************************************)
(* Session lifecycle of the OPC-UA client (lib/client/opcua_client.js):    *)
(* endpoint resolution, CreateSession / ActivateSession / CloseSession      *)
(* exchanges, identity-token derivation and session transfer between two    *)
(* client objects.  Every asynchronous exchange is two steps: the call that *)
(* sends the request, and the arrival of the response, whose content the    *)
(* server chooses.                                                          *)
(***************************************************************************)
EXTENDS Integers, Sequences, FiniteSets, TLC

(***************************************************************************)
(* Bounds of the model.                                                     *)
(***************************************************************************)
MaxCalls == 3           \* API calls issued by the application, all clients
MaxSessions == 2        \* sessions the server grants
MaxNonceLen == 130      \* longest nonce tried on validateServerNonce
MaxEndpoints == 2       \* longest endpoint list a server publishes

(***************************************************************************)
(* JavaScript values.  A nonce is null/undefined or a Buffer, of which only *)
(* the length matters; a string is undefined, null, empty or non-empty.     *)
(***************************************************************************)
Undefined == "undefined"
Null == "null"
EmptyString == "empty"
NoBuffer == [isBuffer |-> FALSE, length |-> 0]
Buffer(n) == [isBuffer |-> TRUE, length |-> n]
\* JS truthiness: every object (a Buffer, even of length 0) is truthy.
TruthyBuffer(b) == b.isBuffer
\* JS truthiness of a string-or-absent value: only a non-empty string.
TruthyString(v) == v \notin {Undefined, Null, EmptyString}

Clients == {"c1", "c2"}
Sessions == 1 .. MaxSessions
URLs == {"opc.tcp://host:1", "opc.tcp://10.0.0.1:1"}
Modes == {"NONE", "SIGN"}
Policies == {"None", "Basic128Rsa15", "Basic256"}

(***************************************************************************)
(* validateServerNonce, lines 49-51.                                        *)
(***************************************************************************)
validateServerNonce_noCheck(serverNonce) == TRUE

validateServerNonce_le(serverNonce) ==
    IF TruthyBuffer(serverNonce) /\ serverNonce.length <= 32 THEN FALSE ELSE TRUE

validateServerNonce(serverNonce) ==
    IF TruthyBuffer(serverNonce) /\ serverNonce.length < 32 THEN FALSE ELSE TRUE

(***************************************************************************)
(* Endpoint descriptions and user-token policies published by a server.     *)
(***************************************************************************)
NoTokenPolicy == [policyId |-> Null, tokenType |-> Null, securityPolicyUri |-> Null]
AnonymousPolicy ==
    [policyId |-> "anonymous", tokenType |-> "ANONYMOUS", securityPolicyUri |-> Null]
UserNamePolicy(uri) ==
    [policyId |-> "username_" \o uri, tokenType |-> "USERNAME", securityPolicyUri |-> uri]
PolicyUris == {Null, "None", "Basic128Rsa15", "bogus"}

NoEndpoint ==
    [endpointUrl |-> Undefined, securityMode |-> Undefined,
     securityPolicyUri |-> Undefined, userIdentityTokens |-> << >>]
EndpointDescription(url, mode, policy, tokens) ==
    [endpointUrl |-> url, securityMode |-> mode,
     securityPolicyUri |-> policy, userIdentityTokens |-> tokens]

\* The first of a set of indices of a sequence (0: none).
FirstIndex(indices) ==
    IF indices = {} THEN 0
    ELSE CHOOSE i \in indices : \A j \in indices : i <= j

\* OPCUAClientBase.findEndpoint: the first published endpoint with this URL,
\* security mode and security policy.
findEndpoint(endpoints, url, mode, policy) ==
    LET Match(e) == /\ e.endpointUrl = url
                    /\ e.securityMode = mode
                    /\ e.securityPolicyUri = policy
        i == FirstIndex({k \in 1 .. Len(endpoints) : Match(endpoints[k])})
    IN  IF i = 0 THEN NoEndpoint ELSE endpoints[i]

\* OPCUAClientBase.findEndpointForSecurity: the first published endpoint with
\* this security mode and policy, whatever its URL.
findEndpointForSecurity(endpoints, mode, policy) ==
    LET Match(e) == e.securityMode = mode /\ e.securityPolicyUri = policy
        i == FirstIndex({k \in 1 .. Len(endpoints) : Match(endpoints[k])})
    IN  IF i = 0 THEN NoEndpoint ELSE endpoints[i]

(***************************************************************************)
(* The constructor, lines 67-82: the endpoint_must_exist field it stores    *)
(* for an option that is omitted (undefined), null, true or false.          *)
(***************************************************************************)
MustExistOptions == {Undefined, Null, "true", "false"}

OPCUAClient(option) ==
    IF option = Null THEN "true" ELSE option

\* JS truthiness of the stored field.
TruthyFlag(v) == v = "true"

(***************************************************************************)
(* __resolveEndPoint, lines 115-146: the security policy and endpoint the   *)
(* client ends with, and the value returned.                                *)
(***************************************************************************)
Resolved(ok, policy, endpoint) ==
    [ok |-> ok, securityPolicy |-> policy, endpoint |-> endpoint]

resolveEndPoint_alwaysFallback(must_exist, endpoints, url, mode, policy0) ==
    LET policy == IF policy0 = Undefined THEN "None" ELSE policy0
        exact == findEndpoint(endpoints, url, mode, policy)
        fallback == findEndpointForSecurity(endpoints, mode, policy)
    IN  IF exact # NoEndpoint THEN Resolved(TRUE, policy, exact)
        ELSE IF fallback = NoEndpoint THEN Resolved(FALSE, policy, NoEndpoint)
        ELSE Resolved(TRUE, policy, fallback)

resolveEndPoint(must_exist, endpoints, url, mode, policy0) ==
    LET policy == IF policy0 = Undefined THEN "None" ELSE policy0
        exact == findEndpoint(endpoints, url, mode, policy)
        fallback == findEndpointForSecurity(endpoints, mode, policy)
    IN  IF exact # NoEndpoint THEN Resolved(TRUE, policy, exact)
        ELSE IF TruthyFlag(must_exist) THEN Resolved(FALSE, policy, NoEndpoint)
        ELSE IF fallback = NoEndpoint THEN Resolved(FALSE, policy, NoEndpoint)
        ELSE Resolved(TRUE, policy, fallback)

(***************************************************************************)
(* Identity info and identity tokens, lines 251-371.                        *)
(***************************************************************************)
IdentityInfo(userName, password) ==
    [defined |-> TRUE, userName |-> userName, password |-> password]
\* A client on which no identity info was ever set.
UndefinedInfo == [defined |-> FALSE, userName |-> Undefined, password |-> Undefined]
\* The {} that createSession(callback) passes.
EmptyInfo == IdentityInfo(Undefined, Undefined)
JoeDoe == IdentityInfo("JoeDoe", "secret")
OnlyUserName == IdentityInfo("JoeDoe", Undefined)

isAnonymous(userIdentityInfo) ==
    \/ ~userIdentityInfo.defined
    \/ /\ ~TruthyString(userIdentityInfo.userName)
       /\ ~TruthyString(userIdentityInfo.password)

isUserNamePassword(userIdentityInfo) ==
    /\ userIdentityInfo.userName # Undefined
    /\ userIdentityInfo.password # Undefined

findUserTokenPolicy_anyType(endpoint_description, userTokenType) ==
    IF endpoint_description.userIdentityTokens = << >> THEN NoTokenPolicy
    ELSE endpoint_description.userIdentityTokens[1]

findUserTokenPolicy(endpoint_description, userTokenType) ==
    LET Match(userIdentity) == userIdentity.tokenType = userTokenType
        i == FirstIndex({k \in 1 .. Len(endpoint_description.userIdentityTokens) :
                            Match(endpoint_description.userIdentityTokens[k])})
    IN  IF i = 0 THEN NoTokenPolicy ELSE endpoint_description.userIdentityTokens[i]

\* security_policy.fromURI: the policy a URI names, or Invalid.
fromURI(uri) == IF uri \in Policies THEN uri ELSE "Invalid"

\* security_policy.getCryptoFactory: the asymmetric encryption algorithm of a
\* policy, null for a policy that has none.
getCryptoFactory(securityPolicy) ==
    IF securityPolicy = "Basic128Rsa15" THEN "RSA-1_5"
    ELSE IF securityPolicy = "Basic256" THEN "RSA-OAEP"
    ELSE Null

NoToken ==
    [tokenType |-> Null, policyId |-> Null, userName |-> Undefined,
     encryptionAlgorithm |-> Null, password |-> Undefined, serverNonce |-> NoBuffer]
Derived(err, token) == [err |-> err, token |-> token]

createAnonymousIdentityToken(endpoint_desc) ==
    LET userTokenPolicy == findUserTokenPolicy(endpoint_desc, "ANONYMOUS")
    IN  IF endpoint_desc = NoEndpoint THEN Derived("AssertionError", NoToken)
        ELSE IF userTokenPolicy = NoTokenPolicy
        THEN Derived("Cannot find ANONYMOUS user token policy", NoToken)
        ELSE Derived("none", [NoToken EXCEPT !.tokenType = "ANONYMOUS",
                                             !.policyId = userTokenPolicy.policyId])

\* What session._client._secureChannel.securityPolicy reads on a client
\* whose _secureChannel is null.
NoChannel == "no channel"

\* The password field of the token stands for the encrypted block: it is
\* written as the plaintext parts the block was built from.  channelPolicy
\* is the security policy of the client's channel, read at line 301 only when
\* the token policy's URI names no policy: with no channel that read is a
\* TypeError, with a channel that has no policy line 302 asserts.
createUserNameIdentityToken(endpoint_desc, hasCertificate, serverNonce, channelPolicy, userName, password) ==
    LET userTokenPolicy == findUserTokenPolicy(endpoint_desc, "USERNAME")
        fromToken == fromURI(userTokenPolicy.securityPolicyUri)
        securityPolicy == IF fromToken = "Invalid" THEN channelPolicy ELSE fromToken
        cryptoFactory == getCryptoFactory(securityPolicy)
    IN  IF endpoint_desc = NoEndpoint THEN Derived("AssertionError", NoToken)
        ELSE IF userTokenPolicy = NoTokenPolicy
        THEN Derived("Cannot find USERNAME user token policy", NoToken)
        ELSE IF fromToken = "Invalid" /\ channelPolicy = NoChannel
        THEN Derived("TypeError", NoToken)
        ELSE IF fromToken = "Invalid" /\ channelPolicy = Undefined
        THEN Derived("AssertionError", NoToken)
        ELSE IF ~hasCertificate \/ ~serverNonce.isBuffer
        THEN Derived("AssertionError", NoToken)
        ELSE IF cryptoFactory = Null
        THEN Derived("Unsupported security Policy", NoToken)
        ELSE IF password = Null THEN Derived("TypeError", NoToken)
        ELSE Derived("none",
                     [tokenType |-> "USERNAME", policyId |-> userTokenPolicy.policyId,
                      userName |-> userName, encryptionAlgorithm |-> cryptoFactory,
                      password |-> password, serverNonce |-> serverNonce])

createUserIdentityToken(userIdentityInfo, endpoint_desc, hasCertificate, serverNonce, channelPolicy) ==
    IF isAnonymous(userIdentityInfo)
    THEN createAnonymousIdentityToken(endpoint_desc)
    ELSE IF isUserNamePassword(userIdentityInfo)
    THEN createUserNameIdentityToken(endpoint_desc, hasCertificate, serverNonce,
                                     channelPolicy, userIdentityInfo.userName,
                                     userIdentityInfo.password)
    ELSE Derived("CLIENT: Invalid userIdentityToken", NoToken)

(***************************************************************************)
(* State.                                                                   *)
(*   client[c]   the OPCUAClient object c: its fields, and its reconnection *)
(*               pass                                                       *)
(*   session[s]  the ClientSession object s, once CreateSession made it,    *)
(*               with the number of closeSession calls completed on it      *)
(*   inflight    the requests sent whose response has not arrived, each     *)
(*               with the variables its response callback closes over       *)
(*   calls       the number of API calls issued so far                      *)
(*   delivered   the sessions handed to the application by a callback       *)
(*   ev          what the last step did: the step, whether it sent a        *)
(*               request, invoked the caller's callback or threw, the API   *)
(*               call concerned, the error reported, the session, and the   *)
(*               server's response when the step handled one                *)
(***************************************************************************)
VARIABLES client, session, inflight, calls, delivered, ev

vars == <<client, session, inflight, calls, delivered, ev>>

requestedSessionTimeout == 20000

NoClient == "none"
NoSession ==
    [exists |-> FALSE, _client |-> NoClient, name |-> 0, sessionId |-> 0,
     authenticationToken |-> Null, timeout |-> 0, serverNonce |-> NoBuffer,
     serverCertificate |-> FALSE, closed |-> 0]

\* The reconnection pass of a client (_on_connection_reestablished, lines
\* 736-763): the array async.map iterates, its count of completed iterations,
\* the invocations of the pass's completion callback with the error handed to
\* the last one; and, per session, what the pass did: the _activateSession
\* calls made, how the activation ended, the republish requests made, how the
\* republish ended, the errors in the order they were recorded, and the server
\* nonce and certificate the session had when the pass began.
NoPass ==
    [started |-> FALSE, sessions |-> {}, completed |-> 0, callbacks |-> 0,
     result |-> "none",
     attempts |-> [s \in Sessions |-> 0],
     activation |-> [s \in Sessions |-> "idle"],
     asked |-> [s \in Sessions |-> 0],
     republish |-> [s \in Sessions |-> "idle"],
     errors |-> << >>,
     before |-> [s \in Sessions |-> [serverNonce |-> NoBuffer,
                                     serverCertificate |-> FALSE]]]

\* The client object after construction and connection to a server.  The
\* option the constructor was given is kept beside the fields it set, and so
\* is the way the application uses the object: serial when it waits for the
\* callback of a call before it makes another.
NewClient(option, url, endpoints, mode, policy) ==
    [option_endpoint_must_exist |-> option,
     endpoint_must_exist |-> OPCUAClient(option),
     securityMode |-> mode,
     securityPolicy |-> policy,
     _secureChannel |-> TRUE,
     channel_url |-> url,
     _server_endpoints |-> endpoints,
     endpoint |-> NoEndpoint,
     endpoint_url |-> Undefined,
     userIdentityInfo |-> UndefinedInfo,
     sessionName_counter |-> 0,
     _sessions |-> {},
     reconnection |-> NoPass,
     serial |-> TRUE]

\* The endpointUrl property of a client (kept by OPCUAClientBase): the URL it
\* connected to.
endpointUrl(c) == client[c].channel_url

\* _secureChannel.securityPolicy: the policy the channel was opened with.
channelSecurityPolicy(clientObject) ==
    IF ~clientObject._secureChannel THEN NoChannel
    ELSE IF clientObject.securityPolicy = Undefined THEN "None"
    ELSE clientObject.securityPolicy

\* OPCUAClientBase._addSession / _removeSession on a client object.
removeSession_splice(clientObject, s) ==
    IF s \in clientObject._sessions \/ clientObject._sessions = {}
    THEN [clientObject EXCEPT !._sessions = @ \ {s}]
    ELSE [clientObject EXCEPT !._sessions =
             @ \ {CHOOSE x \in @ : \A y \in @ : y <= x}]
addSession(clientObject, s) ==
    [clientObject EXCEPT !._sessions = @ \cup {s}]
removeSession(clientObject, s) ==
    [clientObject EXCEPT !._sessions = @ \ {s}]

(***************************************************************************)
(* What a server may answer.                                                *)
(***************************************************************************)
ServerNonces == {NoBuffer, Buffer(31), Buffer(32)}
ServerTokens == {"token"}

Response(err, serviceResult, serverNonce, authenticationToken) ==
    [err |-> err, serviceResult |-> serviceResult, serverNonce |-> serverNonce,
     authenticationToken |-> authenticationToken]
NoResponse == Response(FALSE, "none", NoBuffer, Null)
TransportError == Response(TRUE, "none", NoBuffer, Null)
Bad(code) == Response(FALSE, code, NoBuffer, Null)
IsGood(response) == ~response.err /\ response.serviceResult = "Good"

CreateSessionResponses ==
    {TransportError, Bad("BadTooManySessions"), Bad("BadSecurityChecksFailed")}
    \cup {Response(FALSE, "Good", n, a) : n \in ServerNonces, a \in ServerTokens}

ActivateSessionResponses ==
    {TransportError, Bad("BadIdentityTokenRejected")}
    \cup {Response(FALSE, "Good", n, Null) : n \in ServerNonces}

CloseSessionResponses ==
    {TransportError, Bad("BadSessionIdInvalid"), Response(FALSE, "Good", NoBuffer, Null)}

(***************************************************************************)
(* Events and requests.                                                     *)
(***************************************************************************)
\* reported: the errors ("none": no error) handed to the caller's callback in
\* the step, one per invocation, in order.
Event(step, kind, op, self, err, s, response) ==
    [step |-> step, kind |-> kind, op |-> op, self |-> self, err |-> err,
     session |-> s, response |-> response,
     reported |-> IF kind = "callback" THEN <<err>> ELSE << >>]
Sent(step, op, self, s, response) ==
    Event(step, "request", op, self, "none", s, response)
Callback(step, op, self, err, s, response) ==
    Event(step, "callback", op, self, err, s, response)
Thrown(step, op, self, err, s) ==
    Event(step, "throw", op, self, err, s, NoResponse)
\* The caller's callback invoked twice in one step, with first and then err.
CallbackTwice(step, op, self, first, err, s, response) ==
    [Callback(step, op, self, err, s, response) EXCEPT !.reported = <<first, err>>]
NoEvent == Event("init", "none", "none", NoClient, "none", 0, NoResponse)

NoSignature == [certificate |-> FALSE, nonce |-> NoBuffer]

\* The CreateSessionRequest of lines 183-192.  It has no serverNonce field:
\* reading request.serverNonce gives undefined.
\* userIdentityInfo is the argument of the createSession call, which the
\* callback of lines 552-563 closes over.
CreateSessionRequest(self, sessionName, userIdentityInfo) ==
    [op |-> "CreateSession", self |-> self, from |-> "createSession",
     session |-> 0, old_client |-> NoClient, sessionName |-> sessionName,
     serverNonce |-> NoBuffer, userIdentityToken |-> NoToken,
     clientSignature |-> NoSignature,
     userIdentityInfo |-> userIdentityInfo, old_userIdentity |-> UndefinedInfo]

\* The ActivateSessionRequest of lines 406-448, with the _old_client its
\* response callback rolls back to, the API call it came from and the
\* old_userIdentity that call saved (line 571).
ActivateSessionRequest(self, from, s, old_client, old_userIdentity, token, signature) ==
    [op |-> "ActivateSession", self |-> self, from |-> from,
     session |-> s, old_client |-> old_client, sessionName |-> 0,
     serverNonce |-> NoBuffer, userIdentityToken |-> token,
     clientSignature |-> signature,
     userIdentityInfo |-> UndefinedInfo, old_userIdentity |-> old_userIdentity]

\* The CloseSessionRequest of lines 592-594.
CloseSessionRequest(self, s) ==
    [op |-> "CloseSession", self |-> self, from |-> "closeSession",
     session |-> s, old_client |-> NoClient, sessionName |-> 0,
     serverNonce |-> NoBuffer, userIdentityToken |-> NoToken,
     clientSignature |-> NoSignature,
     userIdentityInfo |-> UndefinedInfo, old_userIdentity |-> UndefinedInfo]

(***************************************************************************)
(* A serial application calls one API at a time on a client, and one at a   *)
(* time on a session; the code itself holds no call back.                   *)
(***************************************************************************)
Serial == \A c \in DOMAIN client : client[c].serial
ClientIdle(c) == Serial => \A r \in inflight : r.self # c
SessionIdle(s) == Serial => \A r \in inflight : r.session # s

FreeSessions == {s \in Sessions : ~session[s].exists}

(***************************************************************************)
(* _createSession's response callback, lines 198-240: the error it reports  *)
(* and the session it builds, for session slot s.                           *)
(***************************************************************************)
Created(err, sess) == [err |-> err, session |-> sess]

PopulatedSession(self, request, response, s) ==
    [exists |-> TRUE, _client |-> self, name |-> request.sessionName,
     sessionId |-> s, authenticationToken |-> response.authenticationToken,
     timeout |-> requestedSessionTimeout, serverNonce |-> response.serverNonce,
     serverCertificate |-> TRUE, closed |-> 0]

createSession_response_lenient(self, request, response, s) ==
    IF response.err THEN Created("transport", NoSession)
    ELSE IF response.serviceResult = "BadTooManySessions"
    THEN Created("Too Many Sessions", NoSession)
    ELSE Created("none", PopulatedSession(self, request, response, s))

createSession_response(self, request, response, s) ==
    IF response.err THEN Created("transport", NoSession)
    ELSE IF response.serviceResult = "BadTooManySessions"
    THEN Created("Too Many Sessions", NoSession)
    ELSE IF response.serviceResult = "Good"
    THEN IF ~validateServerNonce(request.serverNonce)
         THEN Created("invalid server Nonce", NoSession)
         ELSE Created("none", PopulatedSession(self, request, response, s))
    ELSE Created("??? " \o response.serviceResult, NoSession)

(***************************************************************************)
(* _activateSession, lines 375-473.                                         *)
(***************************************************************************)
\* session.endpoint: the endpoint of the client the session is attached to.
sessionEndpoint(clientObject) == clientObject.endpoint

\* Lines 385-448, run with session._client already set to this client: the
\* token derived from the client's identity info and the signature over the
\* session's certificate and nonce.
activateSession_request_noNonce(clientObject, sess) ==
    LET derived == createUserIdentityToken(clientObject.userIdentityInfo,
                                           sessionEndpoint(clientObject),
                                           sess.serverCertificate, sess.serverNonce,
                                           channelSecurityPolicy(clientObject))
    IN  [err |-> derived.err, userIdentityToken |-> derived.token,
         clientSignature |-> [certificate |-> sess.serverCertificate,
                              nonce |-> NoBuffer]]

activateSession_request(clientObject, sess) ==
    LET derived == createUserIdentityToken(clientObject.userIdentityInfo,
                                           sessionEndpoint(clientObject),
                                           sess.serverCertificate, sess.serverNonce,
                                           channelSecurityPolicy(clientObject))
    IN  [err |-> derived.err, userIdentityToken |-> derived.token,
         clientSignature |-> [certificate |-> sess.serverCertificate,
                              nonce |-> sess.serverNonce]]

\* Lines 450-469: the error reported and the session object left behind.
Activated(err, sess) == [err |-> err, session |-> sess]

activateSession_response_keepNonce(sess, old_client, response) ==
    IF ~response.err /\ response.serviceResult = "Good"
    THEN IF ~validateServerNonce(response.serverNonce)
         THEN Activated("Invalid server Nonce", sess)
         ELSE Activated("none", sess)
    ELSE Activated(IF response.err THEN "transport" ELSE response.serviceResult,
                   [sess EXCEPT !._client = old_client])

activateSession_response_renamed(sess, old_client, response) ==
    IF ~response.err /\ response.serviceResult = "Good"
    THEN LET updated == [sess EXCEPT !.serverNonce = response.serverNonce,
                                     !.name = @ + 1]
         IN  IF ~validateServerNonce(updated.serverNonce)
             THEN Activated("Invalid server Nonce", updated)
             ELSE Activated("none", updated)
    ELSE Activated(IF response.err THEN "transport" ELSE response.serviceResult,
                   [sess EXCEPT !._client = old_client])

activateSession_response(sess, old_client, response) ==
    IF ~response.err /\ response.serviceResult = "Good"
    THEN LET updated == [sess EXCEPT !.serverNonce = response.serverNonce]
         IN  IF ~validateServerNonce(updated.serverNonce)
             THEN Activated("Invalid server Nonce", updated)
             ELSE Activated("none", updated)
    ELSE Activated(IF response.err THEN "transport" ELSE response.serviceResult,
                   [sess EXCEPT !._client = old_client])

\* The call of _activateSession up to the request being sent (or the token
\* error being reported), made in step `step` for API call `from` of client
\* self, with `pending` the requests that stay in flight and `response` the
\* response the step handles, if any.  Without a secure channel line 382
\* invokes the callback and the function goes on: the token derivation fails,
\* or computeClientSignature (line 412) reads a field of the null channel and
\* the TypeError, thrown inside the try block of createUserIdentityToken, is
\* handed to lines 399-401; either way the callback is invoked again.  A
\* request equal to one in flight is not sent (the application does not
\* repeat a call it is still waiting for).
activateSession(step, self, clientObject, s, sess, from, old_userIdentity, pending, response) ==
    LET old_client == sess._client
        attached == [sess EXCEPT !._client = self]
        request == activateSession_request(clientObject, attached)
        sent == ActivateSessionRequest(self, from, s, old_client, old_userIdentity,
                                       request.userIdentityToken,
                                       request.clientSignature)
    IN  IF ~clientObject._secureChannel
        THEN /\ session' = [session EXCEPT ![s] = [attached EXCEPT !._client = old_client]]
             /\ inflight' = pending
             /\ delivered' = IF from = "createSession" THEN delivered \cup {s}
                             ELSE delivered
             /\ ev' = CallbackTwice(step, from, self, " No secure channel",
                                    IF request.err # "none" THEN request.err
                                    ELSE "TypeError",
                                    s, response)
        ELSE IF request.err # "none"
        THEN /\ session' = [session EXCEPT ![s] = [attached EXCEPT !._client = old_client]]
             /\ inflight' = pending
             /\ delivered' = IF from = "createSession" THEN delivered \cup {s}
                             ELSE delivered
             /\ ev' = Callback(step, from, self, request.err, s, response)
        ELSE /\ sent \notin pending
             /\ session' = [session EXCEPT ![s] = attached]
             /\ inflight' = pending \cup {sent}
             /\ delivered' = delivered
             /\ ev' = Sent(step, from, self, s, response)

(***************************************************************************)
(* createSession, lines 540-564, with _createSession, lines 148-196.        *)
(***************************************************************************)
createSession(self, userIdentityInfo) ==
    /\ calls < MaxCalls
    /\ ClientIdle(self)
    /\ LET r == resolveEndPoint(client[self].endpoint_must_exist,
                                client[self]._server_endpoints,
                                client[self].channel_url,
                                client[self].securityMode,
                                client[self].securityPolicy)
           resolved == [client[self] EXCEPT !.userIdentityInfo = userIdentityInfo,
                                            !.securityPolicy = r.securityPolicy,
                                            !.endpoint = r.endpoint]
       IN  IF ~client[self]._secureChannel
           THEN /\ client' = [client EXCEPT ![self] =
                                 [@ EXCEPT !.userIdentityInfo = userIdentityInfo,
                                           !.securityPolicy = r.securityPolicy]]
                /\ inflight' = inflight
                /\ ev' = Thrown("createSession", "createSession", self, "TypeError", 0)
           ELSE IF ~r.ok \/ r.endpoint = NoEndpoint
           THEN /\ client' = [client EXCEPT ![self] = resolved]
                /\ inflight' = inflight
                /\ ev' = Callback("createSession", "createSession", self,
                                  "End point must exist", 0, NoResponse)
           ELSE /\ client' = [client EXCEPT ![self] =
                                 [resolved EXCEPT !.endpoint_url = resolved.channel_url,
                                                  !.sessionName_counter = @ + 1]]
                /\ inflight' = inflight \cup
                       {CreateSessionRequest(self, resolved.sessionName_counter + 1,
                                             userIdentityInfo)}
                /\ ev' = Sent("createSession", "createSession", self, 0, NoResponse)
    /\ calls' = calls + 1
    /\ UNCHANGED <<session, delivered>>

\* The CreateSession response arrives: lines 198-240, then createSession's
\* callback, lines 552-563, which adds the session and calls _activateSession.
\* The server grants a session only while it has one to grant.
CreateSessionResponse(request, response) ==
    /\ request \in inflight
    /\ request.op = "CreateSession"
    /\ IsGood(response) => FreeSessions # {}
    /\ LET self == request.self
           s == IF FreeSessions = {} THEN 0
                ELSE CHOOSE x \in FreeSessions : \A y \in FreeSessions : x <= y
           created == createSession_response(self, request, response, s)
       IN  IF created.err # "none" \/ s = 0
           THEN /\ inflight' = inflight \ {request}
                /\ ev' = Callback("CreateSessionResponse", "createSession", self,
                                  created.err, 0, response)
                /\ UNCHANGED <<client, session, delivered>>
           ELSE /\ client' = [client EXCEPT ![self] = addSession(@, s)]
                /\ activateSession("CreateSessionResponse", self, client[self], s,
                                   created.session, "createSession", UndefinedInfo,
                                   inflight \ {request}, response)
    /\ UNCHANGED calls

\* reactivateSession's callback of _activateSession, lines 496-512: the
\* clients after it.
reactivateSession_callback_keepOld(clients, self, old_client, s, err) ==
    IF err = "none" /\ old_client # self
    THEN [clients EXCEPT ![self] = addSession(@, s)]
    ELSE clients

reactivateSession_callback(clients, self, old_client, s, err) ==
    IF err = "none" /\ old_client # self
    THEN [clients EXCEPT ![old_client] = removeSession(@, s),
                         ![self] = addSession(@, s)]
    ELSE clients

\* The ActivateSession response arrives: lines 450-469, then the callback of
\* the API call that asked for the activation (lines 559-561, 574-576,
\* 496-512).
ActivateSessionResponse(request, response) ==
    /\ request \in inflight
    /\ request.op = "ActivateSession"
    /\ request.from # "reconnect"
    /\ LET self == request.self
           s == request.session
           activated == activateSession_response(session[s], request.old_client, response)
       IN  /\ session' = [session EXCEPT ![s] = activated.session]
           /\ client' = IF request.from = "reactivateSession"
                        THEN reactivateSession_callback(client, self, request.old_client,
                                                        s, activated.err)
                        ELSE client
           /\ delivered' = IF request.from = "createSession" THEN delivered \cup {s}
                           ELSE delivered
           /\ ev' = Callback("ActivateSessionResponse", request.from, self,
                             activated.err, s, response)
    /\ inflight' = inflight \ {request}
    /\ UNCHANGED calls

(***************************************************************************)
(* changeSessionIdentity, lines 566-579.                                    *)
(***************************************************************************)
changeSessionIdentity(self, s, userIdentityInfo) ==
    /\ calls < MaxCalls
    /\ s \in delivered
    /\ ClientIdle(self)
    /\ SessionIdle(s)
    /\ LET clientObject == [client[self] EXCEPT !.userIdentityInfo = userIdentityInfo]
       IN  /\ client' = [client EXCEPT ![self] = clientObject]
           /\ activateSession("changeSessionIdentity", self, clientObject, s, session[s],
                              "changeSessionIdentity", client[self].userIdentityInfo,
                              inflight, NoResponse)
    /\ calls' = calls + 1

(***************************************************************************)
(* reactivateSession, lines 482-513.                                        *)
(***************************************************************************)
\* The assertion of line 493 on the two clients' endpointUrl.
sameEndpointUrl_unchecked(ownerUrl, selfUrl) == TRUE

sameEndpointUrl(ownerUrl, selfUrl) == ownerUrl = selfUrl

reactivateSession(self, s) ==
    /\ calls < MaxCalls
    /\ s \in delivered
    /\ ClientIdle(self)
    /\ SessionIdle(s)
    /\ LET r == resolveEndPoint(client[self].endpoint_must_exist,
                                client[self]._server_endpoints,
                                client[self].channel_url,
                                client[self].securityMode,
                                client[self].securityPolicy)
           clientObject == [client[self] EXCEPT !.securityPolicy = r.securityPolicy,
                                                !.endpoint = r.endpoint]
       IN  IF ~client[self]._secureChannel
           THEN /\ ev' = Thrown("reactivateSession", "reactivateSession", self,
                                "AssertionError", s)
                /\ UNCHANGED <<client, session, inflight, delivered>>
           ELSE /\ client' = [client EXCEPT ![self] = clientObject]
                /\ IF ~r.ok \/ r.endpoint = NoEndpoint
                   THEN /\ ev' = Callback("reactivateSession", "reactivateSession", self,
                                          "End point must exist", s, NoResponse)
                        /\ UNCHANGED <<session, inflight, delivered>>
                   ELSE IF ~sameEndpointUrl(endpointUrl(session[s]._client),
                                            endpointUrl(self))
                   THEN /\ ev' = Thrown("reactivateSession", "reactivateSession", self,
                                        "AssertionError", s)
                        /\ UNCHANGED <<session, inflight, delivered>>
                   ELSE activateSession("reactivateSession", self, clientObject, s,
                                        session[s], "reactivateSession", UndefinedInfo,
                                        inflight, NoResponse)
    /\ calls' = calls + 1

(***************************************************************************)
(* closeSession, lines 618-631, with _closeSession, lines 581-608.          *)
(***************************************************************************)
\* closeSession's callback of _closeSession, lines 627-630: the clients after
\* it.
closeSession_callback_onGood(clients, self, s, err) ==
    IF err = "none" THEN [clients EXCEPT ![self] = removeSession(@, s)] ELSE clients

closeSession_callback(clients, self, s, err) ==
    [clients EXCEPT ![self] = removeSession(@, s)]

\* The history kept with a session: one more closeSession call completed.
Closed(sess) == [sess EXCEPT !.closed = @ + 1]

closeSession(self, s) ==
    /\ calls < MaxCalls
    /\ s \in delivered
    /\ ClientIdle(self)
    /\ SessionIdle(s)
    /\ IF session[s]._client # self
       THEN /\ ev' = Thrown("closeSession", "closeSession", self, "AssertionError", s)
            /\ UNCHANGED <<client, session, inflight>>
       ELSE IF ~client[self]._secureChannel
       THEN /\ client' = closeSession_callback(client, self, s, "no channel")
            /\ session' = [session EXCEPT ![s] = Closed(@)]
            /\ ev' = Callback("closeSession", "closeSession", self, "no channel", s,
                              NoResponse)
            /\ inflight' = inflight
       ELSE /\ CloseSessionRequest(self, s) \notin inflight
            /\ ev' = Sent("closeSession", "closeSession", self, s, NoResponse)
            /\ inflight' = inflight \cup {CloseSessionRequest(self, s)}
            /\ UNCHANGED <<client, session>>
    /\ calls' = calls + 1
    /\ UNCHANGED delivered

\* The error _closeSession hands to closeSession's callback, lines 596-606:
\* the transport's, whatever result code a delivered response carries.
closeSession_response(response) == IF response.err THEN "transport" ELSE "none"

CloseSessionResponse(request, response) ==
    /\ request \in inflight
    /\ request.op = "CloseSession"
    /\ client' = closeSession_callback(client, request.self, request.session,
                                       closeSession_response(response))
    /\ session' = [session EXCEPT ![request.session] = Closed(@)]
    /\ ev' = Callback("CloseSessionResponse", "closeSession", request.self,
                      closeSession_response(response), request.session, response)
    /\ inflight' = inflight \ {request}
    /\ UNCHANGED <<calls, delivered>>

\* The secure channel of a client is lost (OPCUAClientBase): no exchange of
\* the client is in flight any more.
disconnect(self) ==
    /\ calls < MaxCalls
    /\ client[self]._secureChannel
    /\ ClientIdle(self)
    /\ client' = [client EXCEPT ![self]._secureChannel = FALSE]
    /\ ev' = Event("disconnect", "none", "disconnect", self, "none", 0, NoResponse)
    /\ calls' = calls + 1
    /\ UNCHANGED <<session, inflight, delivered>>

(***************************************************************************)
(* _on_connection_reestablished, lines 642-767: once the base class has a   *)
(* new secure channel, async.map runs _activateSession on every session of  *)
(* the client's collection and, for a session activated, asks its publish   *)
(* engine to republish.                                                     *)
(***************************************************************************)
\* The republish request of lines 633-639, answered by the publish engine.
RepublishRequest(self, s) ==
    [op |-> "Republish", self |-> self, from |-> "reconnect",
     session |-> s, old_client |-> NoClient, sessionName |-> 0,
     serverNonce |-> NoBuffer, userIdentityToken |-> NoToken,
     clientSignature |-> NoSignature,
     userIdentityInfo |-> UndefinedInfo, old_userIdentity |-> UndefinedInfo]

RepublishResponses == {"none", "republish failed"}

\* The collection as the array async.map iterates: sessions in the order
\* they were added, which is the order of their numbers.
RECURSIVE sessionsArray(_)
sessionsArray(sessions) ==
    IF sessions = {} THEN << >>
    ELSE LET first == CHOOSE x \in sessions : \A y \in sessions : x <= y
         IN  <<first>> \o sessionsArray(sessions \ {first})

\* async.map is handed the array: with nothing to iterate it calls the
\* completion callback at once.
map_start(sessions, sessionObjects) ==
    [NoPass EXCEPT !.started = TRUE,
                   !.sessions = sessions,
                   !.callbacks = IF sessions = {} THEN 1 ELSE 0,
                   !.before = [s \in Sessions |->
                                 [serverNonce |-> sessionObjects[s].serverNonce,
                                  serverCertificate |-> sessionObjects[s].serverCertificate]]]

\* The `next` of one iteration, as async.map handles it: the first error
\* goes to the completion callback, which is then disabled; a success is
\* counted, and the last of them calls the completion callback.
map_next_everyError(pass, err) ==
    IF err # "none"
    THEN [pass EXCEPT !.callbacks = @ + 1, !.result = err,
                      !.errors = Append(@, err)]
    ELSE LET counted == [pass EXCEPT !.completed = @ + 1]
         IN  IF counted.completed >= Cardinality(pass.sessions) /\ pass.callbacks = 0
             THEN [counted EXCEPT !.callbacks = 1, !.result = "none"]
             ELSE counted

map_next(pass, err) ==
    IF err # "none"
    THEN LET recorded == [pass EXCEPT !.errors = Append(@, err)]
         IN  IF pass.callbacks = 0
             THEN [recorded EXCEPT !.callbacks = 1, !.result = err]
             ELSE recorded
    ELSE LET counted == [pass EXCEPT !.completed = @ + 1]
         IN  IF counted.completed >= Cardinality(pass.sessions) /\ pass.callbacks = 0
             THEN [counted EXCEPT !.callbacks = 1, !.result = "none"]
             ELSE counted

\* The iterations async.map starts, one after the other in the same turn:
\* _activateSession on each session of the array, errs[s] being the error of
\* its token derivation, reported at once through next (lines 399-402, 761).
RECURSIVE iterate_untilError(_, _, _, _)
iterate_untilError(pass, array, i, errs) ==
    IF i > Len(array) THEN pass
    ELSE LET s == array[i]
             called == [pass EXCEPT !.attempts[s] = @ + 1,
                                    !.activation[s] = IF errs[s] = "none" THEN "pending"
                                                      ELSE errs[s]]
         IN  IF errs[s] = "none" THEN iterate_untilError(called, array, i + 1, errs)
             ELSE map_next(called, errs[s])

RECURSIVE iterate(_, _, _, _)
iterate(pass, array, i, errs) ==
    IF i > Len(array) THEN pass
    ELSE LET s == array[i]
             called == [pass EXCEPT !.attempts[s] = @ + 1,
                                    !.activation[s] = IF errs[s] = "none" THEN "pending"
                                                      ELSE errs[s]]
         IN  iterate(IF errs[s] = "none" THEN called ELSE map_next(called, errs[s]),
                     array, i + 1, errs)

\* Lines 755-758: republish is asked for when the activation reported no
\* error.
askRepublish_always(err) == TRUE

askRepublish(err) == err = "none"

on_connection_reestablished(self) ==
    /\ calls < MaxCalls
    /\ client[self]._secureChannel
    /\ ClientIdle(self)
    /\ \A s \in client[self]._sessions : SessionIdle(s)
    /\ \A r \in inflight : ~(r.from = "reconnect" /\ r.self = self)
    /\ LET sessions == client[self]._sessions
           attached == [s \in Sessions |-> [session[s] EXCEPT !._client = self]]
           request == [s \in Sessions |-> activateSession_request(client[self], attached[s])]
           errs == [s \in Sessions |-> request[s].err]
           pass == iterate(map_start(sessions, session), sessionsArray(sessions), 1, errs)
           sent == {s \in Sessions : pass.attempts[s] > 0 /\ errs[s] = "none"}
       IN  /\ client' = [client EXCEPT ![self].reconnection = pass]
           /\ session' = [s \in Sessions |-> IF s \in sent THEN attached[s] ELSE session[s]]
           /\ inflight' = inflight \cup
                  {ActivateSessionRequest(self, "reconnect", s, session[s]._client,
                                          UndefinedInfo,
                                          request[s].userIdentityToken,
                                          request[s].clientSignature) : s \in sent}
           /\ ev' = Event("on_connection_reestablished",
                          IF pass.callbacks > 0 THEN "callback" ELSE "request",
                          "reconnect", self, pass.result, 0, NoResponse)
    /\ calls' = calls + 1
    /\ UNCHANGED delivered

\* The ActivateSession response of a session of the pass arrives: lines
\* 450-469, then the callback of lines 744-760.
ReactivatedResponse(request, response) ==
    /\ request \in inflight
    /\ request.op = "ActivateSession"
    /\ request.from = "reconnect"
    /\ LET self == request.self
           s == request.session
           activated == activateSession_response(session[s], request.old_client, response)
           pass == client[self].reconnection
           answered == [pass EXCEPT !.activation[s] =
                           IF activated.err = "none" THEN "ok" ELSE activated.err]
           after == IF askRepublish(activated.err)
                    THEN [answered EXCEPT !.asked[s] = @ + 1, !.republish[s] = "pending"]
                    ELSE map_next(answered, activated.err)
       IN  /\ session' = [session EXCEPT ![s] = activated.session]
           /\ client' = [client EXCEPT ![self].reconnection = after]
           /\ inflight' = (inflight \ {request}) \cup
                  (IF askRepublish(activated.err) THEN {RepublishRequest(self, s)} ELSE {})
           /\ ev' = Event("ActivateSessionResponse",
                          IF after.callbacks > pass.callbacks THEN "callback"
                          ELSE IF askRepublish(activated.err) THEN "request" ELSE "none",
                          "reconnect", self, activated.err, s, response)
    /\ UNCHANGED <<calls, delivered>>

\* The publish engine answers the republish request: line 637, then next.
RepublishResponse(request, err) ==
    /\ request \in inflight
    /\ request.op = "Republish"
    /\ LET self == request.self
           s == request.session
           pass == client[self].reconnection
           after == map_next([pass EXCEPT !.republish[s] =
                                 IF err = "none" THEN "ok" ELSE err], err)
       IN  /\ client' = [client EXCEPT ![self].reconnection = after]
           /\ ev' = Event("RepublishResponse",
                          IF after.callbacks > pass.callbacks THEN "callback" ELSE "none",
                          "reconnect", self, err, s, NoResponse)
    /\ inflight' = inflight \ {request}
    /\ UNCHANGED <<session, calls, delivered>>

(***************************************************************************)
(* Spec: the session lifecycle on two clients, each connected to a server   *)
(* that publishes one endpoint at the URL the client connected to.          *)
(***************************************************************************)
IdentityInfos == {EmptyInfo, JoeDoe}

TokenLists ==
    { <<AnonymousPolicy, UserNamePolicy("Basic128Rsa15")>>,
      <<UserNamePolicy("Basic128Rsa15")>> }

Init ==
    /\ \E url \in URLs, tokens \in TokenLists :
          client = [c \in Clients |->
                      LET u == IF c = "c1" THEN "opc.tcp://host:1" ELSE url
                      IN  NewClient(IF c = "c1" THEN Undefined ELSE "true", u,
                                    <<EndpointDescription(u, "NONE", "None", tokens)>>,
                                    "NONE", Undefined)]
    /\ session = [s \in Sessions |-> NoSession]
    /\ inflight = {}
    /\ calls = 0
    /\ delivered = {}
    /\ ev = NoEvent

Next ==
    \/ \E c \in Clients, i \in IdentityInfos : createSession(c, i)
    \/ \E r \in inflight, a \in CreateSessionResponses : CreateSessionResponse(r, a)
    \/ \E r \in inflight, a \in ActivateSessionResponses : ActivateSessionResponse(r, a)
    \/ \E c \in Clients, s \in Sessions, i \in IdentityInfos :
          changeSessionIdentity(c, s, i)
    \/ \E c \in Clients, s \in Sessions : reactivateSession(c, s)
    \/ \E c \in Clients, s \in Sessions : closeSession(c, s)
    \/ \E r \in inflight, a \in CloseSessionResponses : CloseSessionResponse(r, a)

Spec == Init /\ [][Next]_vars

(***************************************************************************)
(* SpecNonce: validateServerNonce applied to an absent nonce and to Buffers *)
(* of every length up to MaxNonceLen.                                       *)
(***************************************************************************)
Nonces == {NoBuffer} \cup {Buffer(n) : n \in 0 .. MaxNonceLen}

Returned(serverNonce, result) ==
    [step |-> "validateServerNonce", kind |-> "return", serverNonce |-> serverNonce,
     result |-> result]

validate(serverNonce) ==
    /\ ev' = Returned(serverNonce, validateServerNonce(serverNonce))
    /\ UNCHANGED <<client, session, inflight, calls, delivered>>

InitNonce ==
    /\ client = [c \in Clients |->
                    NewClient(Undefined, "opc.tcp://host:1", << >>, "NONE", Undefined)]
    /\ session = [s \in Sessions |-> NoSession]
    /\ inflight = {}
    /\ calls = 0
    /\ delivered = {}
    /\ ev = NoEvent

NextNonce == \E n \in Nonces : validate(n)

SpecNonce == InitNonce /\ [][NextNonce]_vars

(***************************************************************************)
(* SpecEndpoint: one createSession on a client built with each value of the *)
(* endpoint_must_exist option, connected at either URL with either security *)
(* mode, to a server publishing any list of up to MaxEndpoints endpoints.   *)
(***************************************************************************)
PublishedEndpoints ==
    {EndpointDescription(u, m, "None", <<AnonymousPolicy>>) : u \in URLs, m \in Modes}

EndpointLists ==
    UNION {[1 .. n -> PublishedEndpoints] : n \in 0 .. MaxEndpoints}

InitEndpoint ==
    /\ \E option \in MustExistOptions, url \in URLs, mode \in Modes,
          endpoints \in EndpointLists :
          client = [c \in Clients |->
                      IF c = "c1"
                      THEN NewClient(option, url, endpoints, mode, Undefined)
                      ELSE NewClient(Undefined, "opc.tcp://host:1", << >>, "NONE",
                                     Undefined)]
    /\ session = [s \in Sessions |-> NoSession]
    /\ inflight = {}
    /\ calls = 0
    /\ delivered = {}
    /\ ev = NoEvent

NextEndpoint ==
    \/ calls = 0 /\ createSession("c1", EmptyInfo)
    \/ \E r \in inflight, a \in CreateSessionResponses : CreateSessionResponse(r, a)
    \/ \E r \in inflight, a \in ActivateSessionResponses : ActivateSessionResponse(r, a)

SpecEndpoint == InitEndpoint /\ [][NextEndpoint]_vars

(***************************************************************************)
(* SpecTransfer: a session created on one client and reactivated and closed *)
(* on any of three clients connected to the same endpoint.                  *)
(***************************************************************************)
Clients3 == Clients \cup {"c3"}

InitTransfer ==
    /\ client = [c \in Clients3 |->
                    NewClient("true", "opc.tcp://host:1",
                              <<EndpointDescription("opc.tcp://host:1", "NONE", "None",
                                                    <<AnonymousPolicy>>)>>,
                              "NONE", Undefined)]
    /\ session = [s \in Sessions |-> NoSession]
    /\ inflight = {}
    /\ calls = 0
    /\ delivered = {}
    /\ ev = NoEvent

NextTransfer ==
    \/ createSession("c1", EmptyInfo)
    \/ \E r \in inflight, a \in CreateSessionResponses : CreateSessionResponse(r, a)
    \/ \E r \in inflight, a \in ActivateSessionResponses : ActivateSessionResponse(r, a)
    \/ \E c \in Clients3, s \in Sessions : reactivateSession(c, s)
    \/ \E c \in Clients3, s \in Sessions : closeSession(c, s)
    \/ \E r \in inflight, a \in CloseSessionResponses : CloseSessionResponse(r, a)

SpecTransfer == InitTransfer /\ [][NextTransfer]_vars

(***************************************************************************)
(* SpecClose: closeSession on a client that holds one session created and   *)
(* activated with anonymous identity, may create more, and may lose its     *)
(* secure channel.                                                          *)
(***************************************************************************)
AnonymousEndpoint ==
    EndpointDescription("opc.tcp://host:1", "NONE", "None", <<AnonymousPolicy>>)

\* A client as a successful createSession() leaves it, holding session s.
ClientWithSession(s) ==
    [NewClient("true", "opc.tcp://host:1", <<AnonymousEndpoint>>, "NONE", Undefined)
        EXCEPT !.userIdentityInfo = EmptyInfo,
               !.securityPolicy = "None",
               !.endpoint = AnonymousEndpoint,
               !.endpoint_url = "opc.tcp://host:1",
               !.sessionName_counter = 1,
               !._sessions = {s}]

\* Session s as that createSession() leaves it.
ActivatedSession(self, s) ==
    activateSession_response(
        PopulatedSession(self, CreateSessionRequest(self, 1, EmptyInfo),
                         Response(FALSE, "Good", Buffer(32), "token"), s),
        self, Response(FALSE, "Good", Buffer(32), Null)).session

InitClose ==
    /\ client = [c \in Clients |->
                    IF c = "c1" THEN ClientWithSession(1)
                    ELSE NewClient("true", "opc.tcp://host:1", <<AnonymousEndpoint>>,
                                   "NONE", Undefined)]
    /\ session = [s \in Sessions |->
                     IF s = 1 THEN ActivatedSession("c1", 1) ELSE NoSession]
    /\ inflight = {}
    /\ calls = 0
    /\ delivered = {1}
    /\ ev = NoEvent

NextClose ==
    \/ createSession("c1", EmptyInfo)
    \/ \E r \in inflight, a \in CreateSessionResponses : CreateSessionResponse(r, a)
    \/ \E r \in inflight, a \in ActivateSessionResponses : ActivateSessionResponse(r, a)
    \/ \E c \in Clients : disconnect(c)
    \/ \E c \in Clients, s \in Sessions : closeSession(c, s)
    \/ \E r \in inflight, a \in CloseSessionResponses : CloseSessionResponse(r, a)

SpecClose == InitClose /\ [][NextClose]_vars

(***************************************************************************)
(* SpecReconnect: a client that creates sessions with either identity and   *)
(* whose connection is re-established.                                      *)
(***************************************************************************)
InitReconnect ==
    /\ client = [c \in Clients |->
                    NewClient("true", "opc.tcp://host:1",
                              <<EndpointDescription("opc.tcp://host:1", "NONE", "None",
                                    <<AnonymousPolicy, UserNamePolicy("Basic128Rsa15")>>)>>,
                              "NONE", Undefined)]
    /\ session = [s \in Sessions |-> NoSession]
    /\ inflight = {}
    /\ calls = 0
    /\ delivered = {}
    /\ ev = NoEvent

NextReconnect ==
    \/ \E i \in IdentityInfos : createSession("c1", i)
    \/ \E r \in inflight, a \in CreateSessionResponses : CreateSessionResponse(r, a)
    \/ \E r \in inflight, a \in ActivateSessionResponses : ActivateSessionResponse(r, a)
    \/ on_connection_reestablished("c1")
    \/ \E r \in inflight, a \in ActivateSessionResponses : ReactivatedResponse(r, a)
    \/ \E r \in inflight, e \in RepublishResponses : RepublishResponse(r, e)

SpecReconnect == InitReconnect /\ [][NextReconnect]_vars

(***************************************************************************)
(* SpecToken: one createSession with identity info of every shape (absent,  *)
(* or user name and password each undefined, null, empty or a string), on   *)
(* an endpoint advertising any of the token policies.                       *)
(***************************************************************************)
UserNames == {Undefined, Null, EmptyString, "JoeDoe"}
Passwords == {Undefined, Null, EmptyString, "secret"}

IdentityShapes ==
    {UndefinedInfo} \cup {IdentityInfo(u, p) : u \in UserNames, p \in Passwords}

AdvertisedTokenLists ==
    { << >>, <<AnonymousPolicy>>, <<UserNamePolicy("Basic128Rsa15")>>,
      <<AnonymousPolicy, UserNamePolicy("Basic128Rsa15")>>,
      <<UserNamePolicy("Basic128Rsa15"), AnonymousPolicy>> }

InitToken ==
    /\ \E tokens \in AdvertisedTokenLists :
          client = [c \in Clients |->
                      NewClient("true", "opc.tcp://host:1",
                                <<EndpointDescription("opc.tcp://host:1", "NONE", "None",
                                                      tokens)>>,
                                "NONE", Undefined)]
    /\ session = [s \in Sessions |-> NoSession]
    /\ inflight = {}
    /\ calls = 0
    /\ delivered = {}
    /\ ev = NoEvent

NextToken ==
    \/ \E i \in IdentityShapes : calls = 0 /\ createSession("c1", i)
    \/ \E r \in inflight, a \in CreateSessionResponses : CreateSessionResponse(r, a)
    \/ \E r \in inflight, a \in ActivateSessionResponses : ActivateSessionResponse(r, a)

SpecToken == InitToken /\ [][NextToken]_vars

(***************************************************************************)
(* The encrypted password of a UserName token, lines 323-335, byte by byte. *)
(***************************************************************************)
MaxNonceBytes == 2      \* longest server nonce tried with every content

\* A Buffer with its content.
Bytes(content) == [isBuffer |-> TRUE, length |-> Len(content), bytes |-> content]
NoBytes == [isBuffer |-> FALSE, length |-> 0, bytes |-> << >>]

\* new Buffer(password, "utf-8"), line 325: the UTF-8 encoding of the string.
\* "caf\\u00E9" stands for the four characters c, a, f, e-acute, the last of
\* which takes two bytes.
utf8(password) ==
    IF password = "secret" THEN <<115, 101, 99, 114, 101, 116>>
    ELSE IF password = "caf\\u00E9" THEN <<99, 97, 102, 195, 169>>
    ELSE << >>

\* Buffer.writeUInt32LE on a Buffer of four bytes, lines 332-333.
writeUInt32LE(value) ==
    << value % 256, (value \div 256) % 256,
       (value \div 65536) % 256, (value \div 16777216) % 256 >>

\* Lines 332-334: the block that is encrypted.
passwordBlock_nonceFirst(password, serverNonce) ==
    writeUInt32LE(Len(password) + Len(serverNonce)) \o serverNonce \o password

passwordBlock(password, serverNonce) ==
    writeUInt32LE(Len(password) + Len(serverNonce)) \o password \o serverNonce

\* The key pair of a server certificate: what is encrypted with the public
\* key of a certificate is decrypted with the private key of the same number.
KeyPairs == {7, 200}
extractPublicKeyFromCertificateSync(serverCertificate) == serverCertificate
\* cryptoFactory.asymmetricEncrypt / asymmetricDecrypt: a keyed substitution
\* of every byte, undone only by the matching key.
asymmetricEncrypt(block, publicKey) ==
    [i \in 1 .. Len(block) |-> (block[i] + publicKey) % 256]
asymmetricDecrypt(block, privateKey) ==
    [i \in 1 .. Len(block) |-> (block[i] + 256 - privateKey) % 256]

\* Lines 305-335: the password field of the token, for a password and a
\* session nonce that line 312 and line 325 accept.
encryptedPassword(serverCertificate, serverNonce, password) ==
    asymmetricEncrypt(passwordBlock(utf8(password), serverNonce.bytes),
                      extractPublicKeyFromCertificateSync(serverCertificate))

(***************************************************************************)
(* SpecBlock: createUserNameIdentityToken applied to a password, a session  *)
(* nonce of any content up to MaxNonceBytes bytes, of 32 bytes or of 300    *)
(* bytes, or absent, and an endpoint with or without a UserName policy.     *)
(***************************************************************************)
NonceContents ==
    UNION {[1 .. n -> {0, 1, 255}] : n \in 0 .. MaxNonceBytes}
    \cup {[i \in 1 .. 32 |-> (7 * i) % 256], [i \in 1 .. 300 |-> i % 256]}

BlockNonces == {NoBytes} \cup {Bytes(content) : content \in NonceContents}
BlockPasswords == {Null, EmptyString, "secret", "caf\\u00E9"}
BlockTokenLists ==
    { <<AnonymousPolicy>>, <<UserNamePolicy("Basic128Rsa15")>>,
      <<AnonymousPolicy, UserNamePolicy("Basic256")>> }

DerivedToken(tokens, serverCertificate, serverNonce, password, derived) ==
    [step |-> "createUserNameIdentityToken", kind |-> "return",
     userIdentityTokens |-> tokens, serverCertificate |-> serverCertificate,
     serverNonce |-> serverNonce, password |-> password,
     err |-> derived.err, token |-> derived.token,
     encrypted |-> IF derived.err = "none"
                   THEN encryptedPassword(serverCertificate, serverNonce, password)
                   ELSE << >>]

deriveUserNameToken(tokens, serverCertificate, serverNonce, password) ==
    /\ ev' = DerivedToken(tokens, serverCertificate, serverNonce, password,
                 createUserNameIdentityToken(
                     EndpointDescription("opc.tcp://host:1", "NONE", "None", tokens),
                     TRUE, Buffer(serverNonce.length), "None", "JoeDoe", password))
    /\ UNCHANGED <<client, session, inflight, calls, delivered>>

InitBlock ==
    /\ client = [c \in Clients |->
                    NewClient(Undefined, "opc.tcp://host:1", << >>, "NONE", Undefined)]
    /\ session = [s \in Sessions |-> NoSession]
    /\ inflight = {}
    /\ calls = 0
    /\ delivered = {}
    /\ ev = NoEvent

NextBlock ==
    \E tokens \in BlockTokenLists, k \in KeyPairs, n \in BlockNonces, p \in BlockPasswords :
        deriveUserNameToken(tokens, k, n, p)

SpecBlock == InitBlock /\ [][NextBlock]_vars

(***************************************************************************)
(* SpecChannel: changeSessionIdentity on a session created and activated    *)
(* with anonymous identity, on a client that may have lost its secure       *)
(* channel, for every security-policy URI of the endpoint's UserName token  *)
(* policy and a channel opened with policy None or Basic128Rsa15.           *)
(***************************************************************************)
ChannelEndpoint(policy, uri) ==
    EndpointDescription("opc.tcp://host:1", IF policy = "None" THEN "NONE" ELSE "SIGN",
                        policy, <<AnonymousPolicy, UserNamePolicy(uri)>>)

\* A client as a successful createSession() on that endpoint leaves it,
\* holding session s.
ClientOnEndpoint(endpoint_desc, s) ==
    [NewClient("true", endpoint_desc.endpointUrl, <<endpoint_desc>>,
               endpoint_desc.securityMode, endpoint_desc.securityPolicyUri)
        EXCEPT !.userIdentityInfo = EmptyInfo,
               !.endpoint = endpoint_desc,
               !.endpoint_url = endpoint_desc.endpointUrl,
               !.sessionName_counter = 1,
               !._sessions = {s}]

InitChannel ==
    /\ \E policy \in {"None", "Basic128Rsa15"}, uri \in PolicyUris \cup {"Basic256"} :
          client = [c \in Clients |->
                      IF c = "c1" THEN ClientOnEndpoint(ChannelEndpoint(policy, uri), 1)
                      ELSE NewClient("true", "opc.tcp://host:1",
                                     <<ChannelEndpoint(policy, uri)>>,
                                     ChannelEndpoint(policy, uri).securityMode, policy)]
    /\ session = [s \in Sessions |->
                     IF s = 1 THEN ActivatedSession("c1", 1) ELSE NoSession]
    /\ inflight = {}
    /\ calls = 0
    /\ delivered = {1}
    /\ ev = NoEvent

NextChannel ==
    \/ disconnect("c1")
    \/ \E s \in Sessions, i \in IdentityInfos : changeSessionIdentity("c1", s, i)
    \/ \E r \in inflight, a \in ActivateSessionResponses : ActivateSessionResponse(r, a)

SpecChannel == InitChannel /\ [][NextChannel]_vars

(***************************************************************************)
(* SpecOverlap: an application that does not wait for a callback before it  *)
(* makes the next call.  Client c1 holds a session created and activated    *)
(* with anonymous identity; it creates sessions, changes the identity of a  *)
(* session, closes sessions and has its connection re-established, while    *)
(* client c2 reactivates sessions, in any interleaving with the answers.    *)
(***************************************************************************)
OverlapEndpoint == ChannelEndpoint("None", "Basic128Rsa15")

InitOverlap ==
    /\ client = [c \in Clients |->
                    [(IF c = "c1" THEN ClientOnEndpoint(OverlapEndpoint, 1)
                      ELSE NewClient("true", "opc.tcp://host:1", <<OverlapEndpoint>>,
                                     "NONE", "None"))
                        EXCEPT !.serial = FALSE]]
    /\ session = [s \in Sessions |->
                     IF s = 1 THEN ActivatedSession("c1", 1) ELSE NoSession]
    /\ inflight = {}
    /\ calls = 0
    /\ delivered = {1}
    /\ ev = NoEvent

NextOverlap ==
    \/ \E i \in IdentityInfos : createSession("c1", i)
    \/ \E r \in inflight, a \in CreateSessionResponses : CreateSessionResponse(r, a)
    \/ \E r \in inflight, a \in ActivateSessionResponses : ActivateSessionResponse(r, a)
    \/ \E s \in Sessions, i \in IdentityInfos : changeSessionIdentity("c1", s, i)
    \/ \E s \in Sessions : reactivateSession("c2", s)
    \/ \E s \in Sessions : closeSession("c1", s)
    \/ \E r \in inflight, a \in CloseSessionResponses : CloseSessionResponse(r, a)
    \/ on_connection_reestablished("c1")
    \/ \E r \in inflight, a \in ActivateSessionResponses : ReactivatedResponse(r, a)
    \/ \E r \in inflight, e \in RepublishResponses : RepublishResponse(r, e)

SpecOverlap == InitOverlap /\ [][NextOverlap]_vars

(***************************************************************************)
(* SpecActivate: the same application and clients as SpecOverlap, without   *)
(* further createSession calls: every activation and close of the session   *)
(* c1 holds, in any interleaving with the answers.                          *)
(***************************************************************************)
NextActivate ==
    \/ \E r \in inflight, a \in ActivateSessionResponses : ActivateSessionResponse(r, a)
    \/ \E s \in Sessions, i \in IdentityInfos : changeSessionIdentity("c1", s, i)
    \/ \E s \in Sessions : reactivateSession("c2", s)
    \/ \E s \in Sessions : closeSession("c1", s)
    \/ \E r \in inflight, a \in CloseSessionResponses : CloseSessionResponse(r, a)
    \/ on_connection_reestablished("c1")
    \/ \E r \in inflight, a \in ActivateSessionResponses : ReactivatedResponse(r, a)
    \/ \E r \in inflight, e \in RepublishResponses : RepublishResponse(r, e)

SpecActivate == InitOverlap /\ [][NextActivate]_vars

(***************************************************************************)
(* Claims.                                                                  *)
(***************************************************************************)
IsShort(nonce) == nonce.isBuffer /\ nonce.length < 32
AtLeast32(nonce) == nonce.isBuffer /\ nonce.length >= 32
Collections(clients) == [c \in Clients |-> clients[c]._sessions]

\* C1 as stated: validateServerNonce(N) is false iff N is present and shorter
\* than 32 bytes, and an absent nonce and an empty (zero-length) nonce are both
\* accepted.
C1_AsStated ==
    ev.step = "validateServerNonce" =>
        /\ (ev.result = FALSE) <=> IsShort(ev.serverNonce)
        /\ (~ev.serverNonce.isBuffer \/ ev.serverNonce.length = 0) => (ev.result = TRUE)

\* C1, amended: validateServerNonce(N) is false iff N is a Buffer shorter than
\* 32 bytes, the zero-length Buffer included; only an absent (null or
\* undefined) nonce and a Buffer of at least 32 bytes are accepted.
C1_NonceValidation ==
    ev.step = "validateServerNonce" =>
        /\ ~ev.serverNonce.isBuffer => (ev.result = TRUE)
        /\ (ev.serverNonce.isBuffer /\ ev.serverNonce.length <= 31) => (ev.result = FALSE)
        /\ (ev.serverNonce.isBuffer /\ ev.serverNonce.length >= 32) => (ev.result = TRUE)

C1_Witness ==
    /\ ev.step = "validateServerNonce"
    /\ ev.serverNonce = Buffer(0)
    /\ ev.result = FALSE

\* What the server of client c publishes, read off the list itself.
RequestedPolicy(c) ==
    IF client[c].securityPolicy = Undefined THEN "None" ELSE client[c].securityPolicy
SecurityMatches(c) ==
    {i \in 1 .. Len(client[c]._server_endpoints) :
        /\ client[c]._server_endpoints[i].securityMode = client[c].securityMode
        /\ client[c]._server_endpoints[i].securityPolicyUri = RequestedPolicy(c)}
ExactMatches(c) ==
    {i \in SecurityMatches(c) :
        client[c]._server_endpoints[i].endpointUrl = client[c].channel_url}
\* createSession was called on c: it stored the identity info.
Called(c) == client[c].userIdentityInfo.defined
\* The create failed on the endpoint: nothing was sent, nothing was made.
EndpointRefused(c) ==
    /\ ev = Callback("createSession", "createSession", c, "End point must exist", 0,
                     NoResponse)
    /\ inflight = {}
    /\ client[c]._sessions = {}
    /\ \A s \in Sessions : ~session[s].exists

\* C2: when no published endpoint matches the channel URL with the requested
\* mode and policy, createSession with endpoint_must_exist = true fails with
\* the endpoint error, sends no CreateSession request and adds no session; with
\* endpoint_must_exist = false it proceeds with the first endpoint matching the
\* mode and policy if there is one, and fails if there is none.
C2_EndpointMustExist ==
    \A c \in Clients :
        (Called(c) /\ ExactMatches(c) = {}) =>
            /\ client[c].endpoint_must_exist = "true" => EndpointRefused(c)
            /\ (client[c].endpoint_must_exist = "false" /\ SecurityMatches(c) = {})
                   => EndpointRefused(c)
            /\ (client[c].endpoint_must_exist = "false" /\ SecurityMatches(c) # {}) =>
                   /\ ev.err # "End point must exist"
                   /\ ev.step = "createSession" =>
                          /\ ev.kind = "request"
                          /\ \E r \in inflight : r.op = "CreateSession" /\ r.self = c
                   /\ \E i \in SecurityMatches(c) :
                          /\ \A j \in SecurityMatches(c) : i <= j
                          /\ client[c].endpoint = client[c]._server_endpoints[i]

C2_Witness ==
    \E c \in Clients :
        /\ client[c].endpoint_must_exist = "false"
        /\ ExactMatches(c) = {}
        /\ ev.step = "ActivateSessionResponse"
        /\ ev.self = c
        /\ ev.err = "none"
        /\ client[c].endpoint.endpointUrl # client[c].channel_url
        /\ ev.session \in client[c]._sessions

\* C3: a client constructed without an endpoint_must_exist option is strict:
\* when no published endpoint matches the channel URL with the requested mode
\* and policy, createSession fails with the endpoint error, even when another
\* endpoint matches the mode and policy under a different URL.
C3_StrictByDefault ==
    \A c \in Clients :
        (client[c].option_endpoint_must_exist = Undefined
            /\ Called(c) /\ ExactMatches(c) = {}) => EndpointRefused(c)

AdvertisesAnonymous(endpoint_description) ==
    \E i \in 1 .. Len(endpoint_description.userIdentityTokens) :
        endpoint_description.userIdentityTokens[i].tokenType = "ANONYMOUS"

\* createSession of client c, with anonymous identity info, on a resolved
\* endpoint that advertises an Anonymous token policy, is what step ev belongs
\* to, and the server's answer handled in it is Good.
AnonymousCreateAnsweredGood(c) ==
    /\ ev.self = c
    /\ ev.op = "createSession"
    /\ IsGood(ev.response)
    /\ isAnonymous(client[c].userIdentityInfo)
    /\ AdvertisesAnonymous(client[c].endpoint)

\* The ActivateSession request of createSession is sent in the step that
\* handles the Good CreateSession response, for the session that response made.
ActivateSentOnCreateResponse(c) ==
    /\ ev.kind = "request"
    /\ session[ev.session].exists
    /\ session[ev.session].authenticationToken = ev.response.authenticationToken
    /\ \E r \in inflight :
          /\ r.op = "ActivateSession" /\ r.self = c /\ r.session = ev.session
          /\ r.userIdentityToken.tokenType = "ANONYMOUS"
    /\ \A r \in inflight :
          (r.op = "ActivateSession" /\ r.from = "createSession") => session[r.session].exists

CreatedAndActivated(c) ==
    /\ ev.kind = "callback"
    /\ ev.err = "none"
    /\ ev.session \in client[c]._sessions
    /\ session[ev.session].authenticationToken # Null
    /\ session[ev.session].serverNonce.isBuffer
    /\ session[ev.session].serverNonce.length > 0

\* C4 as stated: createSession with anonymous identity, on an endpoint that
\* advertises an Anonymous token policy, with the server answering Good to
\* CreateSession and to ActivateSession, completes without error; the
\* ActivateSession request is sent only once the CreateSession response has
\* arrived; the session is in the client's collection with a non-empty
\* authentication token and a non-empty server nonce.
C4_AsStated ==
    \A c \in Clients :
        AnonymousCreateAnsweredGood(c) =>
            /\ ev.step = "CreateSessionResponse" => ActivateSentOnCreateResponse(c)
            /\ ev.step = "ActivateSessionResponse" => CreatedAndActivated(c)

\* C4, amended: the same, provided the Good ActivateSession response carries a
\* server nonce of at least 32 bytes (with a shorter one createSession reports
\* an invalid-nonce error, with none the session's nonce is empty).
C4_CreateThenActivate ==
    \A c \in Clients :
        AnonymousCreateAnsweredGood(c) =>
            /\ ev.step = "CreateSessionResponse" => ActivateSentOnCreateResponse(c)
            /\ (ev.step = "ActivateSessionResponse" /\ AtLeast32(ev.response.serverNonce))
                   => CreatedAndActivated(c)

C4_Witness ==
    \E c \in Clients :
        /\ AnonymousCreateAnsweredGood(c)
        /\ ev.step = "ActivateSessionResponse"
        /\ ev.response.serverNonce = Buffer(32)
        /\ CreatedAndActivated(c)

\* C5: when the CreateSession response is Good but its server nonce is present
\* and shorter than 32 bytes, createSession fails with an invalid-nonce error
\* and no session is populated or added; every session that exists and was not
\* yet re-activated holds a nonce that is absent or at least 32 bytes long.
C5_ShortNonceRejected ==
    (ev.step = "CreateSessionResponse" /\ IsGood(ev.response)
        /\ IsShort(ev.response.serverNonce)) =>
        /\ ev.kind = "callback"
        /\ ev.err = "invalid server Nonce"
        /\ ev.session = 0
        /\ \A s \in Sessions : session[s].exists => ~IsShort(session[s].serverNonce)

\* C6: whenever the CreateSession exchange ends other than Good (a transport
\* error, 'too many sessions', any other result code), createSession reports
\* an error (Too Many Sessions for that code, the wrapped code for the others),
\* hands over no session, and leaves the sessions and every client's
\* collection as they were.
C6_CreateRejected ==
    [][(ev'.step = "CreateSessionResponse" /\ ~IsGood(ev'.response)) =>
          /\ ev'.kind = "callback"
          /\ ev'.op = "createSession"
          /\ ev'.session = 0
          /\ ev'.err = IF ev'.response.err THEN "transport"
                       ELSE IF ev'.response.serviceResult = "BadTooManySessions"
                       THEN "Too Many Sessions"
                       ELSE "??? " \o ev'.response.serviceResult
          /\ session' = session
          /\ delivered' = delivered
          /\ Collections(client') = Collections(client)]_vars

C6_Witness ==
    /\ ev.step = "CreateSessionResponse"
    /\ ev.response.serviceResult = "BadSecurityChecksFailed"
    /\ ev.err = "??? BadSecurityChecksFailed"
    /\ ev.session = 0

\* C7: when an ActivateSession exchange returns Good, the session's server
\* nonce is the returned one, and if that nonce is present and shorter than 32
\* bytes the activation reports an invalid-nonce error; no activation reports
\* success leaving the session with a nonce shorter than 32 bytes.
C7_NonceRevalidated ==
    (ev.step = "ActivateSessionResponse" /\ IsGood(ev.response)) =>
        /\ session[ev.session].serverNonce = ev.response.serverNonce
        /\ IsShort(ev.response.serverNonce) => (ev.err = "Invalid server Nonce")
        /\ (ev.err = "none") => ~IsShort(session[ev.session].serverNonce)

C7_Witness ==
    /\ ev.step = "ActivateSessionResponse"
    /\ IsGood(ev.response)
    /\ ev.response.serverNonce = Buffer(31)
    /\ ev.err = "Invalid server Nonce"
    /\ session[ev.session].serverNonce = Buffer(31)

\* The owning client a session had before the activation that a step ends:
\* the one its request saved, or the current one when the step is the call.
OwnerBeforeCall(s) ==
    IF \E r \in inflight : r.op = "ActivateSession" /\ r.session = s
    THEN (CHOOSE r \in inflight : r.op = "ActivateSession" /\ r.session = s).old_client
    ELSE session[s]._client

\* C8: after any activation that reports an error (token derivation, transport
\* failure, non-Good result, invalid nonce in a Good response), the session's
\* owning-client reference is the one it had before the call.
C8_OwnerRolledBack ==
    [][\A s \in Sessions :
          (/\ session[s].exists
           /\ ev'.session = s
           /\ ev'.kind = "callback"
           /\ ev'.err # "none"
           /\ ev'.op \in {"createSession", "changeSessionIdentity", "reactivateSession"})
          => session'[s]._client = OwnerBeforeCall(s)]_vars

\* C9: reactivateSession on client B of a session owned by another client A
\* (attached to A and in A's collection): when the activation succeeds the
\* session is in B's collection and not in A's; when it fails, in the call or
\* on the response, no collection changes, so the session is still in A's and
\* not in B's.
C9_MoveOnSuccessOnly ==
    [][/\ \A r \in inflight :
             (/\ r \notin inflight'
              /\ r.op = "ActivateSession"
              /\ r.from = "reactivateSession"
              /\ r.old_client # r.self
              /\ r.session \in client[r.old_client]._sessions)
             => IF ev'.err = "none"
                THEN /\ r.session \in client'[r.self]._sessions
                     /\ r.session \notin client'[r.old_client]._sessions
                ELSE /\ Collections(client') = Collections(client)
                     /\ r.session \in client'[r.old_client]._sessions
                     /\ r.session \notin client'[r.self]._sessions
       /\ (ev'.step = "reactivateSession" /\ ev'.kind # "request")
             => Collections(client') = Collections(client)]_vars

C9_Witness ==
    /\ ev.step = "ActivateSessionResponse"
    /\ ev.op = "reactivateSession"
    /\ ev.err = "none"
    /\ ev.session \in client[ev.self]._sessions
    /\ client[ev.self].sessionName_counter = 0
    /\ \A c \in Clients \ {ev.self} : ev.session \notin client[c]._sessions

\* C10: reactivateSession onto a client whose endpointUrl differs from that of
\* the session's owning client fails on the endpoint before any
\* ActivateSession request is sent, and leaves the session's owning client and
\* every client's collection as they were.
C10_EndpointUrlMismatch ==
    [][\A s \in Sessions :
          (/\ ev'.step = "reactivateSession"
           /\ ev'.session = s
           /\ endpointUrl(session[s]._client) # endpointUrl(ev'.self))
          => /\ ev'.kind # "request"
             /\ ev'.err \in {"AssertionError", "End point must exist"}
             /\ inflight' = inflight
             /\ session' = session
             /\ Collections(client') = Collections(client)]_vars

C10_Witness ==
    /\ ev.step = "reactivateSession"
    /\ ev.kind = "throw"
    /\ ev.err = "AssertionError"
    /\ session[ev.session]._client # ev.self
    /\ endpointUrl(session[ev.session]._client) # endpointUrl(ev.self)
    /\ inflight = {}

\* The clients whose collection holds session s.
Holders(clients, s) == {c \in DOMAIN clients : s \in clients[c]._sessions}

\* A session that was created and on which no closeSession has completed.
Open(sessions, s) == sessions[s].exists /\ sessions[s].closed = 0

\* C11: in every reachable state, whatever createSession, reactivateSession
\* and closeSession calls were made on the clients, every session created and
\* not closed is in exactly one client's collection, never two and never
\* none; a session leaves one collection for another in a single step, the
\* one in which its reactivation succeeded.
C11_ExactlyOneCollection ==
    [][/\ \A s \in Sessions :
             Open(session', s) => Cardinality(Holders(client', s)) = 1
       /\ \A s \in Sessions :
             (Open(session, s) /\ Open(session', s)
                 /\ Holders(client', s) # Holders(client, s))
             => /\ ev'.step = "ActivateSessionResponse"
                /\ ev'.op = "reactivateSession"
                /\ ev'.session = s
                /\ ev'.err = "none"]_vars

ActivationInFlight(s) ==
    \E r \in inflight : r.op = "ActivateSession" /\ r.session = s

\* C12: whenever no activation is in flight for a session created and not
\* closed, the session's owning-client reference designates exactly the
\* client whose collection holds the session.
C12_OwnerIsHolder ==
    \A s \in Sessions :
        (Open(session, s) /\ ~ActivationInFlight(s))
            => Holders(client, s) = {session[s]._client}

\* C13: closeSession called by the client a session is attached to goes
\* through (it sends CloseSession, or completes at once when there is no
\* channel), and whenever its callback runs - on a Good result, a non-Good
\* result, a transport error or no channel - the session is no longer in that
\* client's collection; the callback reports the transport error or the
\* missing channel, and no error otherwise.
C13_RemovedWhateverTheOutcome ==
    [][/\ (ev'.step = "closeSession" /\ session[ev'.session]._client = ev'.self)
             => ev'.kind = IF client[ev'.self]._secureChannel THEN "request"
                           ELSE "callback"
       /\ (ev'.op = "closeSession" /\ ev'.kind = "callback")
             => /\ ev'.session \notin client'[ev'.self]._sessions
                /\ ev'.err = IF ev'.step = "closeSession" THEN "no channel"
                             ELSE IF ev'.response.err THEN "transport"
                             ELSE "none"]_vars

C13_Witness ==
    /\ ev.step = "CloseSessionResponse"
    /\ ev.response.err
    /\ ev.err = "transport"
    /\ session[ev.session]._client = ev.self
    /\ session[ev.session].closed = 1
    /\ ev.session \notin client[ev.self]._sessions

C13_WitnessNoChannel ==
    /\ ev.step = "closeSession"
    /\ ev.err = "no channel"
    /\ session[ev.session].closed = 1
    /\ ev.session \notin client[ev.self]._sessions

TokenFor(c, s) ==
    createUserIdentityToken(client[c].userIdentityInfo, client[c].endpoint,
                            session[s].serverCertificate, session[s].serverNonce,
                            channelSecurityPolicy(client[c]))

\* C15: in one reconnection pass every session in the client's collection
\* when the pass starts gets exactly one _activateSession call, made with the
\* client's current identity info (its request carries the token derived
\* from it, or the derivation error is the session's outcome), whether or not
\* another session's activation failed; no other session gets one, and no
\* later step of the pass makes another attempt.
C15_EachSessionOnce ==
    [][\A c \in Clients :
          IF ev'.step = "on_connection_reestablished" /\ ev'.self = c
          THEN \A s \in Sessions :
                  IF s \in client[c]._sessions
                  THEN /\ client'[c].reconnection.attempts[s] = 1
                       /\ IF TokenFor(c, s).err = "none"
                          THEN \E r \in inflight' \ inflight :
                                  /\ r.op = "ActivateSession" /\ r.from = "reconnect"
                                  /\ r.self = c /\ r.session = s
                                  /\ r.userIdentityToken = TokenFor(c, s).token
                          ELSE client'[c].reconnection.activation[s] = TokenFor(c, s).err
                  ELSE /\ client'[c].reconnection.attempts[s] = 0
                       /\ \A r \in inflight' \ inflight : r.session # s
          ELSE /\ client'[c].reconnection.attempts = client[c].reconnection.attempts
               /\ \A r \in inflight' \ inflight :
                     ~(r.op = "ActivateSession" /\ r.from = "reconnect" /\ r.self = c)]_vars

C15_Witness ==
    /\ ev.step = "on_connection_reestablished"
    /\ client[ev.self]._sessions = {1, 2}
    /\ client[ev.self].reconnection.attempts = [s \in Sessions |-> IF s \in {1, 2} THEN 1 ELSE 0]
    /\ client[ev.self].reconnection.activation[1] = "AssertionError"
    /\ client[ev.self].reconnection.activation[2] = "pending"
    /\ \E r \in inflight : r.op = "ActivateSession" /\ r.session = 2

\* C16: during a reconnection pass republish is requested for a session
\* exactly when its activation in the pass succeeded, once, and not before
\* that activation completed; a session whose activation failed is never
\* asked to republish, and a sibling's earlier failure changes nothing.
C16_RepublishIffActivated ==
    \A c \in Clients : \A s \in Sessions :
        LET pass == client[c].reconnection
        IN  /\ pass.asked[s] = IF pass.activation[s] = "ok" THEN 1 ELSE 0
            /\ (pass.republish[s] # "idle") <=> (pass.activation[s] = "ok")
            /\ \A r \in inflight :
                  (r.op = "Republish" /\ r.self = c /\ r.session = s)
                  => /\ pass.activation[s] = "ok"
                     /\ ~ActivationInFlight(s)

C16_Witness ==
    /\ ev.step = "ActivateSessionResponse"
    /\ ev.op = "reconnect"
    /\ ev.err = "none"
    /\ client[ev.self].reconnection.asked[ev.session] = 1
    /\ client[ev.self].reconnection.callbacks = 1
    /\ \E s \in Sessions \ {ev.session} :
          /\ client[ev.self].reconnection.activation[s] = "BadIdentityTokenRejected"
          /\ client[ev.self].reconnection.asked[s] = 0
    /\ \E r \in inflight : r.op = "Republish" /\ r.session = ev.session

PassInFlight(c) == \E r \in inflight : r.from = "reconnect" /\ r.self = c

AllRecovered(pass) ==
    \A s \in pass.sessions : pass.activation[s] = "ok" /\ pass.republish[s] = "ok"

\* C17: a reconnection pass invokes its completion callback exactly once (at
\* most once while it runs, once when all its exchanges are done); it reports
\* no error exactly when every session's activation and republish succeeded,
\* and otherwise the first error recorded among the sessions.
C17_OneCallbackFirstError ==
    \A c \in Clients :
        LET pass == client[c].reconnection
        IN  pass.started =>
               /\ pass.callbacks <= 1
               /\ ~PassInFlight(c) => pass.callbacks = 1
               /\ pass.callbacks = 0 => pass.errors = << >>
               /\ pass.callbacks = 1 =>
                     /\ (pass.result = "none") <=> AllRecovered(pass)
                     /\ pass.errors # << >> => pass.result = pass.errors[1]
               /\ ~PassInFlight(c) =>
                     ((pass.errors = << >>) <=> AllRecovered(pass))

C17_Witness ==
    LET pass == client["c1"].reconnection
    IN  /\ pass.started
        /\ ~PassInFlight("c1")
        /\ pass.callbacks = 1
        /\ Len(pass.errors) = 2
        /\ pass.errors[1] # pass.errors[2]
        /\ pass.result = pass.errors[1]

Failed(outcome) == outcome \notin {"idle", "pending", "ok"}

\* C18: for every session whose activation fails in a reconnection pass,
\* whatever the cause, the session's server nonce and server certificate are
\* those it had before the attempt.
C18_FailedActivationKeepsNonce ==
    \A c \in Clients :
        LET pass == client[c].reconnection
        IN  \A s \in pass.sessions :
               Failed(pass.activation[s]) =>
                  /\ session[s].serverNonce = pass.before[s].serverNonce
                  /\ session[s].serverCertificate = pass.before[s].serverCertificate

\* A user name or password that is present: a non-empty string.
Present(v) == v \notin {Undefined, Null, EmptyString}

Advertises(endpoint_description, tokenType) ==
    \E i \in 1 .. Len(endpoint_description.userIdentityTokens) :
        endpoint_description.userIdentityTokens[i].tokenType = tokenType

\* The step in which createSession on client c, its session just created,
\* derives the identity token and activates.
DerivesToken(c) ==
    /\ ev.step = "CreateSessionResponse"
    /\ ev.self = c
    /\ ev.session # 0

\* The token of the ActivateSession request sent for the session of ev.
SentToken ==
    (CHOOSE r \in inflight : r.op = "ActivateSession" /\ r.session = ev.session).userIdentityToken

\* C19: identity classification is total over the shapes of the identity
\* info: neither user name nor password present gives an Anonymous token,
\* both present a UserNamePassword token, and exactly one present an
\* invalid-identity-info error and no token (on an endpoint that advertises
\* both token types, for a session holding a server nonce).
C19_Classification ==
    \A c \in Clients :
        (/\ DerivesToken(c)
         /\ Advertises(client[c].endpoint, "ANONYMOUS")
         /\ Advertises(client[c].endpoint, "USERNAME")
         /\ session[ev.session].serverNonce.isBuffer)
        => LET info == client[c].userIdentityInfo
               u == info.defined /\ Present(info.userName)
               p == info.defined /\ Present(info.password)
           IN  IF u /\ p
               THEN ev.kind = "request" /\ SentToken.tokenType = "USERNAME"
               ELSE IF ~u /\ ~p
               THEN ev.kind = "request" /\ SentToken.tokenType = "ANONYMOUS"
               ELSE /\ ev.kind = "callback"
                    /\ ev.err = "CLIENT: Invalid userIdentityToken"
                    /\ ~ActivationInFlight(ev.session)

\* The token type the client's identity info calls for, if any.
RequiredType(info) ==
    IF isAnonymous(info) THEN "ANONYMOUS"
    ELSE IF isUserNamePassword(info) THEN "USERNAME"
    ELSE "none"

\* C20: every identity token sent carries the policy id of a token policy
\* that the session's endpoint advertises for the token's own type; when the
\* endpoint advertises no policy of the required type the derivation fails
\* with a no-matching-token-policy error, and no ActivateSession request is
\* sent.
C20_PolicyIdAdvertised ==
    /\ \A r \in inflight :
          r.op = "ActivateSession" =>
             \E i \in 1 .. Len(client[r.self].endpoint.userIdentityTokens) :
                LET policy == client[r.self].endpoint.userIdentityTokens[i]
                IN  /\ policy.tokenType = r.userIdentityToken.tokenType
                    /\ policy.policyId = r.userIdentityToken.policyId
                    /\ policy.tokenType = RequiredType(client[r.self].userIdentityInfo)
    /\ \A c \in Clients :
          (/\ DerivesToken(c)
           /\ RequiredType(client[c].userIdentityInfo) # "none"
           /\ ~Advertises(client[c].endpoint, RequiredType(client[c].userIdentityInfo)))
          => /\ ev.kind = "callback"
             /\ ev.err = "Cannot find " \o RequiredType(client[c].userIdentityInfo)
                              \o " user token policy"
             /\ ~ActivationInFlight(ev.session)

C20_Witness ==
    /\ DerivesToken("c1")
    /\ client["c1"].userIdentityInfo = JoeDoe
    /\ client["c1"].endpoint.userIdentityTokens = <<AnonymousPolicy>>
    /\ ev.err = "Cannot find USERNAME user token policy"
    /\ inflight = {}

\* The number a 4-byte little-endian prefix writes.
ReadPrefix(block) ==
    block[1] + 256 * block[2] + 65536 * block[3] + 16777216 * block[4]

\* C21: for every password and server nonce from which a UserName token is
\* derived, decrypting the token's encrypted password with the private key
\* of the server certificate gives a 4-byte little-endian length prefix (the
\* number of bytes that follow), then the bytes of the password, then the
\* session's server nonce, and nothing else; on an endpoint without a
\* UserName token policy the derivation fails with the no-matching-policy
\* error and gives no token.
C21_PasswordBlockRoundTrip ==
    ev.step = "createUserNameIdentityToken" =>
        /\ ~Advertises(EndpointDescription("opc.tcp://host:1", "NONE", "None",
                                           ev.userIdentityTokens), "USERNAME")
              => /\ ev.err = "Cannot find USERNAME user token policy"
                 /\ ev.token = NoToken
        /\ ev.err = "none" =>
              LET plain == asymmetricDecrypt(ev.encrypted, ev.serverCertificate)
                  p == Len(utf8(ev.password))
                  n == ev.serverNonce.length
              IN  /\ Len(plain) = 4 + p + n
                  /\ ReadPrefix(plain) = p + n
                  /\ \A i \in 1 .. 4 : plain[i] \in 0 .. 255
                  /\ SubSeq(plain, 5, 4 + p) = utf8(ev.password)
                  /\ SubSeq(plain, 5 + p, 4 + p + n) = ev.serverNonce.bytes

C21_Witness ==
    /\ ev.step = "createUserNameIdentityToken"
    /\ ev.err = "none"
    /\ ev.password = "secret"
    /\ ev.serverNonce.length = 300
    /\ ev.encrypted # passwordBlock(utf8("secret"), ev.serverNonce.bytes)
    /\ SubSeq(asymmetricDecrypt(ev.encrypted, ev.serverCertificate), 1, 10)
          = <<50, 1, 0, 0, 115, 101, 99, 114, 101, 116>>

\* C23: when createSession's CreateSession exchange succeeded and the
\* activation that follows fails, the session is destroyed: once the callback
\* has reported the error the session is in no client's collection.
C23_FailedActivationDestroys ==
    (/\ ev.op = "createSession"
     /\ ev.kind = "callback"
     /\ ev.err # "none"
     /\ ev.session # 0)
    => \A c \in Clients : ev.session \notin client[c]._sessions

\* C24: a reconnection pass reports its outcome only after every session's
\* activate-then-republish sequence has completed: once the completion
\* callback has been invoked, no ActivateSession or republish request of the
\* pass is in flight, also when an earlier session has failed.
C24_OutcomeAfterEverySession ==
    \A c \in Clients :
        client[c].reconnection.callbacks >= 1 => ~PassInFlight(c)

\* C25: when _activateSession is called on a client that has no secure
\* channel, the caller's callback is invoked exactly once, with the
\* no-channel error; no ActivateSession request is sent, and the session
\* (its owning client, its server nonce) is left as it was.
C25_NoChannelReportedOnce ==
    [][(ev'.step = "changeSessionIdentity" /\ ~client[ev'.self]._secureChannel)
       => /\ ev'.reported = <<" No secure channel">>
          /\ inflight' = inflight
          /\ session' = session]_vars

\* The security policy a UserName token is to be encrypted with on client c:
\* the one the token policy's URI names, else the policy of the channel.
EffectivePolicy(c) ==
    LET uri == findUserTokenPolicy(client[c].endpoint, "USERNAME").securityPolicyUri
    IN  IF uri \in {"None", "Basic128Rsa15", "Basic256"} THEN uri
        ELSE IF client[c]._secureChannel THEN RequestedPolicy(c)
        ELSE "none"

\* C26: a UserName token is encrypted with the security policy of its token
\* policy's URI when the URI names a valid policy, and otherwise with the
\* policy of the session's channel; when that gives no policy with
\* asymmetric encryption (an invalid URI and no channel policy, or a policy
\* without encryption such as None), the derivation fails with the
\* unsupported-security-policy error and no token is sent.
C26_TokenSecurityPolicy ==
    \A c \in Clients :
        (/\ ev.step = "changeSessionIdentity"
         /\ ev.self = c
         /\ client[c].userIdentityInfo = JoeDoe
         /\ Advertises(client[c].endpoint, "USERNAME")
         /\ session[ev.session].serverNonce.isBuffer)
        => IF EffectivePolicy(c) = "Basic128Rsa15"
           THEN client[c]._secureChannel =>
                   (ev.kind = "request" /\ SentToken.encryptionAlgorithm = "RSA-1_5")
           ELSE IF EffectivePolicy(c) = "Basic256"
           THEN client[c]._secureChannel =>
                   (ev.kind = "request" /\ SentToken.encryptionAlgorithm = "RSA-OAEP")
           ELSE /\ ev.kind = "callback"
                /\ ev.err = "Unsupported security Policy"
                /\ ~ActivationInFlight(ev.session)

\* The activate and close exchanges in flight for session s.
Transitions(s) ==
    {r \in inflight : r.session = s /\ r.op \in {"ActivateSession", "CloseSession"}}

\* C22: for any session at most one state transition (an activation by
\* createSession, changeSessionIdentity, reactivateSession or a reconnection
\* pass, or a close) is in progress at any time: no close and no second
\* activation of a session starts while an ActivateSession exchange of that
\* session is in flight, and no activation starts while its close is.
C22_OneTransitionPerSession ==
    \A s \in Sessions : Cardinality(Transitions(s)) <= 1

\* What identifies a session: the fields _createSession populates it with.
Identity(sess) ==
    [name |-> sess.name, sessionId |-> sess.sessionId,
     authenticationToken |-> sess.authenticationToken, timeout |-> sess.timeout]

\* A session but for its server nonce and its owning-client reference.
Frame(sess) == [sess EXCEPT !.serverNonce = NoBuffer, !._client = NoClient]

\* C27: activation preserves the identity of a session: no step (a call or
\* an answer of an activation, failed or not, a reconnection pass included)
\* changes the session id, authentication token, name or timeout a session
\* was created with; a step that completes an activation changes nothing of
\* the session but its server nonce and its owning-client reference.
C27_ActivationPreservesIdentity ==
    [][\A s \in Sessions :
          session[s].exists =>
             /\ session'[s].exists
             /\ Identity(session'[s]) = Identity(session[s])
             /\ (\E r \in inflight \ inflight' :
                    r.op = "ActivateSession" /\ r.session = s)
                   => Frame(session'[s]) = Frame(session[s])]_vars

C27_Witness ==
    /\ ev.step = "ActivateSessionResponse"
    /\ ev.op = "reconnect"
    /\ ev.err = "none"
    /\ session[ev.session].serverNonce = NoBuffer
    /\ Identity(session[ev.session]) = Identity(ActivatedSession("c1", ev.session))
    /\ session[ev.session]._client = "c1"

\* C28: each session created by createSession(identityInfo) is activated with
\* the identity info of that call: when the CreateSession answer of a call
\* arrives, the ActivateSession request sent for the new session carries the
\* token derived from the identity info that call was given (or that
\* derivation's error is reported), whatever other createSession call was
\* made on the client in between.
C28_ActivatedWithOwnIdentity ==
    [][\A r \in inflight \ inflight' :
          (r.op = "CreateSession" /\ ev'.session # 0) =>
             LET s == ev'.session
                 own == createUserIdentityToken(r.userIdentityInfo,
                                                client'[r.self].endpoint,
                                                session'[s].serverCertificate,
                                                session'[s].serverNonce,
                                                channelSecurityPolicy(client'[r.self]))
             IN  IF own.err = "none"
                 THEN \E a \in inflight' \ inflight :
                         /\ a.op = "ActivateSession" /\ a.session = s
                         /\ a.userIdentityToken = own.token
                 ELSE ev'.kind = "callback" /\ ev'.err = own.err]_vars

\* C29: when changeSessionIdentity fails, in the call (token derivation) or on
\* the answer (activation error), the client's identity info is the one it
\* had before the call.
C29_IdentityRestoredOnFailure ==
    [][(ev'.op = "changeSessionIdentity" /\ ev'.kind = "callback" /\ ev'.err # "none")
       => IF ev'.step = "changeSessionIdentity"
          THEN client'[ev'.self].userIdentityInfo = client[ev'.self].userIdentityInfo
          ELSE \A r \in inflight \ inflight' :
                  client'[ev'.self].userIdentityInfo = r.old_userIdentity]_vars

\* C30: every ActivateSession request is built, when it is sent, from the
\* most recent server nonce received for its session: the session's nonce is
\* always the one of the last Good CreateSession or ActivateSession answer
\* for it, and a request being sent carries a signature over that nonce and,
\* in a UserName token, a password block ending with it, also when another
\* activation of the session is in flight.
C30_NonceFreshness ==
    [][/\ \A s \in Sessions :
             IF /\ ev'.session = s
                /\ ev'.step \in {"CreateSessionResponse", "ActivateSessionResponse"}
                /\ IsGood(ev'.response)
             THEN session'[s].serverNonce = ev'.response.serverNonce
             ELSE session'[s].serverNonce = session[s].serverNonce
       /\ \A a \in inflight' \ inflight :
             a.op = "ActivateSession" =>
                /\ a.clientSignature.nonce = session'[a.session].serverNonce
                /\ a.userIdentityToken.tokenType = "USERNAME"
                      => a.userIdentityToken.serverNonce = session'[a.session].serverNonce]_vars

C30_Witness ==
    /\ ev.step = "changeSessionIdentity"
    /\ ev.kind = "request"
    /\ session[ev.session].serverNonce = Buffer(31)
    /\ \E a \in inflight, b \in inflight :
          /\ a.op = "ActivateSession" /\ a.from = "changeSessionIdentity"
          /\ b.op = "ActivateSession" /\ b.from = "reconnect"
          /\ a.session = ev.session /\ b.session = ev.session
          /\ a.userIdentityToken.tokenType = "USERNAME"
          /\ a.userIdentityToken.serverNonce = Buffer(31)
          /\ a.clientSignature.nonce = Buffer(31)
          /\ b.clientSignature.nonce = Buffer(32)

====
